---- MODULE Spec2Model ----
(***************************************************************************)
(* Model of the worker-thread pool of rust-tutorial-webserver (src/lib.rs): *)
(* ThreadPool::new / ThreadPool::build / gen_thread_pool, ThreadPool::      *)
(* execute, Drop for ThreadPool, and the fetch-execute loop that            *)
(* Worker::new spawns.  The owner of the pool is one thread (pc); the       *)
(* workers are the threads 0..size-1 (wpc).                                 *)
(*                                                                          *)
(* Spec / FairSpec: every job returns.  FaultSpec / FaultFairSpec: a job    *)
(* may panic.  HangSpec / HangFairSpec: a job may never return.  ConcSpec / *)
(* ConcFairSpec: other threads call execute on the shared pool.  LateSpec:  *)
(* they also call it while drop runs and after it.                          *)
(***************************************************************************)
EXTENDS Naturals, Integers, Sequences, FiniteSets, TLC

\* Largest pool size the owner asks for (sizes 0..MaxSize are tried).
MaxSize == 2
\* Largest number of jobs the owner hands to execute before dropping the pool.
MaxJobs == 3
\* Number of threads, besides the owner, that may call execute.
MaxCallers == 2

ThreadIds == 0 .. (MaxSize - 1)
JobIds == 1 .. MaxJobs
CallerIds == 1 .. MaxCallers

\* Option<T>: None is the empty sequence, Some(x) the one-element sequence.
None == << >>
Some(x) == << x >>

\* Result<Job, RecvError> as returned by recv(), and the slot before a fetch.
NoMessage == [tag |-> "None", job |-> 0]
OkMessage(j) == [tag |-> "Ok", job |-> j]
ErrMessage == [tag |-> "Err", job |-> 0]

VARIABLES
    ctor,           \* which constructor the owner calls: "new" or "build"
    size,           \* the size argument
    poisoned,       \* the receiver's Mutex is poisoned
    callers,        \* other threads calling execute: [at, job] each
    pc,             \* the owner thread's position
    result,         \* what the constructor gave back
    rendered,       \* the PoolCreationError rendered by to_string()
    channels,       \* number of mpsc channels created
    senders,        \* live Sender handles of the channel
    receiver_refs,  \* strong count of the Arc<Mutex<Receiver>>
    queue,          \* jobs sent and not yet received
    mutex,          \* the thread holding the receiver's MutexGuard
    n,              \* loop variable of gen_thread_pool
    workers,        \* ThreadPool.workers: Seq of [id, thread]
    sender,         \* ThreadPool.sender: Option<Sender>
    di,             \* position of drop's loop over workers (1-based)
    joining,        \* the JoinHandle drop took and is joining
    wpc,            \* each worker thread's position
    message,        \* each worker thread's local `message`
    submitted,      \* jobs in the order execute sent them
    fetched,        \* jobs in the order recv() returned them
    invoked,        \* per job, how many times it was called
    finished,       \* per job, how many times it returned
    at_drop         \* history: what was pending when drop began

vars == << ctor, size, poisoned, callers, pc, result, rendered,
           channels, senders, receiver_refs,
           queue, mutex, n, workers, sender, di, joining, wpc, message,
           submitted, fetched, invoked, finished, at_drop >>

poolVars == << workers, sender >>
chanVars == << channels, senders, receiver_refs, queue, mutex >>
workerVars == << wpc, message >>
jobVars == << submitted, fetched, invoked, finished, at_drop >>
envVars == << poisoned, callers >>
ownerVars == << ctor, size, envVars, pc, result, rendered, n, di, joining >>

NoResult == [tag |-> "None", given_size |-> 0]
NotDropped == [begun |-> FALSE, queued |-> 0, held |-> 0, idle |-> 0]
NotCalling == [at |-> "idle", job |-> 0]

\* The state before the constructor is called.
Init ==
    /\ ctor \in {"new", "build"}
    /\ size \in 0 .. MaxSize
    /\ poisoned = FALSE
    /\ callers = [t \in CallerIds |-> NotCalling]
    /\ pc = "call"
    /\ result = NoResult
    /\ rendered = ""
    /\ channels = 0
    /\ senders = 0
    /\ receiver_refs = 0
    /\ queue = << >>
    /\ mutex = None
    /\ n = 0
    /\ workers = << >>
    /\ sender = None
    /\ di = 1
    /\ joining = None
    /\ wpc = [w \in ThreadIds |-> "unspawned"]
    /\ message = [w \in ThreadIds |-> NoMessage]
    /\ submitted = << >>
    /\ fetched = << >>
    /\ invoked = [j \in JobIds |-> 0]
    /\ finished = [j \in JobIds |-> 0]
    /\ at_drop = NotDropped

----------------------------------------------------------------------------
\* PoolCreationError's Display: write!(f, "... Given size: {}", given_size)

Digit(d) ==
    CASE d = 0 -> "0" [] d = 1 -> "1" [] d = 2 -> "2" [] d = 3 -> "3"
      [] d = 4 -> "4" [] d = 5 -> "5" [] d = 6 -> "6" [] d = 7 -> "7"
      [] d = 8 -> "8" [] d = 9 -> "9"

RECURSIVE FmtUsize(_)
FmtUsize(k) == IF k < 10 THEN Digit(k) ELSE FmtUsize(k \div 10) \o Digit(k % 10)

Display(given_size) ==
    "Error creating ThreadPool: Invalid size. Given size: " \o FmtUsize(given_size)

----------------------------------------------------------------------------
\* Construction

\* ThreadPool::new: assert!(size > 0); Self::gen_thread_pool(size)
New ==
    /\ pc = "call"
    /\ ctor = "new"
    /\ IF size > 0
       THEN pc' = "gen" /\ UNCHANGED result
       ELSE pc' = "panicked" /\ result' = [tag |-> "Panic", given_size |-> size]
    /\ UNCHANGED << ctor, size, envVars, rendered, n, di, joining >>
    /\ UNCHANGED << poolVars, chanVars, workerVars, jobVars >>

\* Variant of Build: the size is not checked.
Build_NoCheck ==
    /\ pc = "call"
    /\ ctor = "build"
    /\ pc' = "gen"
    /\ UNCHANGED << ctor, size, envVars, result, rendered, n, di, joining >>
    /\ UNCHANGED << poolVars, chanVars, workerVars, jobVars >>

\* ThreadPool::build: Ok(gen_thread_pool(size)) if size > 0, else Err(PoolCreationError)
Build ==
    /\ pc = "call"
    /\ ctor = "build"
    /\ IF size > 0
       THEN pc' = "gen" /\ UNCHANGED result
       ELSE pc' = "err" /\ result' = [tag |-> "Err", given_size |-> size]
    /\ UNCHANGED << ctor, size, envVars, rendered, n, di, joining >>
    /\ UNCHANGED << poolVars, chanVars, workerVars, jobVars >>

\* The caller of build renders the error it got (pce.to_string()).
to_string ==
    /\ pc = "err"
    /\ rendered' = Display(result.given_size)
    /\ pc' = "err_shown"
    /\ UNCHANGED << ctor, size, envVars, result, n, di, joining >>
    /\ UNCHANGED << poolVars, chanVars, workerVars, jobVars >>

\* gen_thread_pool, lines 80-84: mpsc::channel(), Arc::new(Mutex::new(receiver)),
\* Vec::with_capacity(size)
GenChannel ==
    /\ pc = "gen"
    /\ channels' = channels + 1
    /\ senders' = 1
    /\ receiver_refs' = 1
    /\ queue' = << >>
    /\ mutex' = None
    /\ workers' = << >>
    /\ n' = 0
    /\ pc' = "gen_loop"
    /\ UNCHANGED << ctor, size, envVars, result, rendered, di, joining, sender >>
    /\ UNCHANGED << workerVars, jobVars >>

\* Worker::new(id, receiver): spawn the thread, return Worker { id, thread: Some(..) }
WorkerNew(id) ==
    [id |-> id, thread |-> Some(id)]

\* Variant of GenPush: the loop runs over 0..=size, one worker too many.
GenPush_Inclusive ==
    /\ pc = "gen_loop"
    /\ n <= size
    /\ n \in ThreadIds
    /\ receiver_refs' = receiver_refs + 1
    /\ wpc' = [wpc EXCEPT ![n] = "lock"]
    /\ workers' = Append(workers, WorkerNew(n))
    /\ n' = n + 1
    /\ UNCHANGED << ctor, size, envVars, pc, result, rendered, di, joining, sender >>
    /\ UNCHANGED << channels, senders, queue, mutex, message, jobVars >>

\* gen_thread_pool, one iteration of `for n in 0..size`:
\* workers.push(Worker::new(n, Arc::clone(&receiver)))
GenPush ==
    /\ pc = "gen_loop"
    /\ n < size
    /\ receiver_refs' = receiver_refs + 1
    /\ wpc' = [wpc EXCEPT ![n] = "lock"]
    /\ workers' = Append(workers, WorkerNew(n))
    /\ n' = n + 1
    /\ UNCHANGED << ctor, size, envVars, pc, result, rendered, di, joining, sender >>
    /\ UNCHANGED << channels, senders, queue, mutex, message, jobVars >>

\* Variant of GenReturn: the loop stops one worker short (0..size-1).
GenReturn_Short ==
    /\ pc = "gen_loop"
    /\ n + 1 >= size
    /\ sender' = Some("Sender")
    /\ receiver_refs' = receiver_refs - 1
    /\ result' = [tag |-> "Ok", given_size |-> size]
    /\ pc' = "ready"
    /\ UNCHANGED << ctor, size, envVars, rendered, n, di, joining, workers >>
    /\ UNCHANGED << channels, senders, queue, mutex, workerVars, jobVars >>

\* gen_thread_pool's return: ThreadPool { workers, sender: Some(sender) };
\* the local Arc of the receiver is dropped.
GenReturn ==
    /\ pc = "gen_loop"
    /\ n >= size
    /\ sender' = Some("Sender")
    /\ receiver_refs' = receiver_refs - 1
    /\ result' = [tag |-> "Ok", given_size |-> size]
    /\ pc' = "ready"
    /\ UNCHANGED << ctor, size, envVars, rendered, n, di, joining, workers >>
    /\ UNCHANGED << channels, senders, queue, mutex, workerVars, jobVars >>

----------------------------------------------------------------------------
\* Submission

\* ThreadPool::execute: self.sender.as_ref().unwrap().send(job).unwrap()
\* The jobs are numbered in the order they are handed to execute.
Execute ==
    /\ pc = "ready"
    /\ Len(submitted) < MaxJobs
    /\ LET job == Len(submitted) + 1 IN
       IF sender = None \/ receiver_refs = 0
       THEN /\ pc' = "panicked"
            /\ UNCHANGED << queue, submitted >>
       ELSE /\ queue' = Append(queue, job)
            /\ submitted' = Append(submitted, job)
            /\ UNCHANGED pc
    /\ UNCHANGED << ctor, size, envVars, result, rendered, n, di, joining >>
    /\ UNCHANGED << poolVars, channels, senders, receiver_refs, mutex >>
    /\ UNCHANGED << workerVars, fetched, invoked, finished, at_drop >>

\* execute called from other threads through a shared &ThreadPool: each
\* thread t calls it once, with a job of its own, the job t.

\* execute, line 117: let job = Box::new(f), for a call that begins while the
\* owner is at one of the positions in at
ExecCallAt(t, at) ==
    /\ pc \in at
    /\ callers[t].at = "idle"
    /\ t \in JobIds
    /\ callers' = [callers EXCEPT ![t] = [at |-> "send", job |-> t]]
    /\ UNCHANGED << ctor, size, poisoned, pc, result, rendered, n, di, joining >>
    /\ UNCHANGED << poolVars, chanVars, workerVars, jobVars >>

\* a call that begins while the pool is in use
ExecCall(t) == ExecCallAt(t, {"ready"})

\* Variant of ExecSend: two sends at once are not atomic and one job is lost.
ExecSend_Lossy(t) ==
    /\ callers[t].at = "send"
    /\ IF \E u \in CallerIds \ {t} : callers[u].at = "send"
       THEN UNCHANGED << queue, submitted >>
       ELSE /\ queue' = Append(queue, callers[t].job)
            /\ submitted' = Append(submitted, callers[t].job)
    /\ callers' = [callers EXCEPT ![t].at = "done"]
    /\ UNCHANGED << ctor, size, poisoned, pc, result, rendered, n, di, joining >>
    /\ UNCHANGED << poolVars, channels, senders, receiver_refs, mutex >>
    /\ UNCHANGED << workerVars, fetched, invoked, finished, at_drop >>

\* Variant of ExecSend: with no sender the job is dropped without a word.
ExecSend_Silent(t) ==
    /\ callers[t].at = "send"
    /\ IF sender = None \/ receiver_refs = 0
       THEN UNCHANGED << queue, submitted >>
       ELSE /\ queue' = Append(queue, callers[t].job)
            /\ submitted' = Append(submitted, callers[t].job)
    /\ callers' = [callers EXCEPT ![t].at = "done"]
    /\ UNCHANGED << ctor, size, poisoned, pc, result, rendered, n, di, joining >>
    /\ UNCHANGED << poolVars, channels, senders, receiver_refs, mutex >>
    /\ UNCHANGED << workerVars, fetched, invoked, finished, at_drop >>

\* execute, line 118: self.sender.as_ref().unwrap().send(job).unwrap();
\* unwrap panics in the caller on a None sender or on a send to a channel
\* whose receiver is gone, and the job is dropped with the error
ExecSend(t) ==
    /\ callers[t].at = "send"
    /\ IF sender = None \/ receiver_refs = 0
       THEN /\ callers' = [callers EXCEPT ![t].at = "panicked"]
            /\ UNCHANGED << queue, submitted >>
       ELSE /\ queue' = Append(queue, callers[t].job)
            /\ submitted' = Append(submitted, callers[t].job)
            /\ callers' = [callers EXCEPT ![t].at = "done"]
    /\ UNCHANGED << ctor, size, poisoned, pc, result, rendered, n, di, joining >>
    /\ UNCHANGED << poolVars, channels, senders, receiver_refs, mutex >>
    /\ UNCHANGED << workerVars, fetched, invoked, finished, at_drop >>

----------------------------------------------------------------------------
\* The worker thread's loop (the closure of Worker::new)

\* Variant of Lock: the receiver is shared without mutual exclusion.
Lock_NoMutex(w) ==
    /\ wpc[w] = "lock"
    /\ mutex' = Some(w)
    /\ wpc' = [wpc EXCEPT ![w] = "recv"]
    /\ UNCHANGED << ownerVars, poolVars, jobVars, message >>
    /\ UNCHANGED << channels, senders, receiver_refs, queue >>

\* receiver.lock().unwrap(): blocks until the mutex is free; on a poisoned
\* mutex lock() gives Err, unwrap panics and the thread ends
Lock(w) ==
    /\ wpc[w] = "lock"
    /\ mutex = None
    /\ IF poisoned
       THEN /\ wpc' = [wpc EXCEPT ![w] = "panicked"]
            /\ receiver_refs' = receiver_refs - 1
            /\ UNCHANGED mutex
       ELSE /\ mutex' = Some(w)
            /\ wpc' = [wpc EXCEPT ![w] = "recv"]
            /\ UNCHANGED receiver_refs
    /\ UNCHANGED << ownerVars, poolVars, jobVars, message >>
    /\ UNCHANGED << channels, senders, queue >>

\* Variant of RecvOk: the newest queued job is taken instead of the oldest.
RecvOk_Newest(w) ==
    /\ wpc[w] = "recv"
    /\ queue # << >>
    /\ message' = [message EXCEPT ![w] = OkMessage(queue[Len(queue)])]
    /\ queue' = SubSeq(queue, 1, Len(queue) - 1)
    /\ fetched' = Append(fetched, queue[Len(queue)])
    /\ wpc' = [wpc EXCEPT ![w] = "unlock"]
    /\ UNCHANGED << ownerVars, poolVars, submitted, invoked, finished, at_drop >>
    /\ UNCHANGED << channels, senders, receiver_refs, mutex >>

\* Variant of RecvOk: the job is read but left in the channel.
RecvOk_Peek(w) ==
    /\ wpc[w] = "recv"
    /\ queue # << >>
    /\ message' = [message EXCEPT ![w] = OkMessage(Head(queue))]
    /\ fetched' = Append(fetched, Head(queue))
    /\ wpc' = [wpc EXCEPT ![w] = "unlock"]
    /\ UNCHANGED << ownerVars, poolVars, submitted, invoked, finished, at_drop >>
    /\ UNCHANGED << channels, senders, receiver_refs, mutex, queue >>

\* .recv() returns Ok(job): the oldest queued job is taken out of the channel
RecvOk(w) ==
    /\ wpc[w] = "recv"
    /\ queue # << >>
    /\ message' = [message EXCEPT ![w] = OkMessage(Head(queue))]
    /\ queue' = Tail(queue)
    /\ fetched' = Append(fetched, Head(queue))
    /\ wpc' = [wpc EXCEPT ![w] = "unlock"]
    /\ UNCHANGED << ownerVars, poolVars, submitted, invoked, finished, at_drop >>
    /\ UNCHANGED << channels, senders, receiver_refs, mutex >>

\* Variant of RecvErr: an empty channel is taken for a closed one.
RecvErr_Empty(w) ==
    /\ wpc[w] = "recv"
    /\ queue = << >>
    /\ message' = [message EXCEPT ![w] = ErrMessage]
    /\ wpc' = [wpc EXCEPT ![w] = "unlock"]
    /\ UNCHANGED << ownerVars, poolVars, jobVars, chanVars >>

\* .recv() returns Err: the channel is empty and every Sender is gone
RecvErr(w) ==
    /\ wpc[w] = "recv"
    /\ queue = << >>
    /\ senders = 0
    /\ message' = [message EXCEPT ![w] = ErrMessage]
    /\ wpc' = [wpc EXCEPT ![w] = "unlock"]
    /\ UNCHANGED << ownerVars, poolVars, jobVars, chanVars >>

\* Variant of Unlock: the guard lives on through the match (as it would in
\* `match receiver.lock().unwrap().recv() { .. }`).
Unlock_GuardKept(w) ==
    /\ wpc[w] = "unlock"
    /\ wpc' = [wpc EXCEPT ![w] = "match"]
    /\ UNCHANGED << ownerVars, poolVars, jobVars, message, chanVars >>

\* End of `let message = receiver.lock().unwrap().recv();`: the temporary
\* MutexGuard is dropped, before the match
Unlock(w) ==
    /\ wpc[w] = "unlock"
    /\ mutex' = IF mutex = Some(w) THEN None ELSE mutex
    /\ wpc' = [wpc EXCEPT ![w] = "match"]
    /\ UNCHANGED << ownerVars, poolVars, jobVars, message >>
    /\ UNCHANGED << channels, senders, receiver_refs, queue >>

\* match message { Ok(job) => { println!(..); job(); — the call starts
MatchOk(w) ==
    /\ wpc[w] = "match"
    /\ message[w].tag = "Ok"
    /\ invoked' = [invoked EXCEPT ![message[w].job] = @ + 1]
    /\ wpc' = [wpc EXCEPT ![w] = "job"]
    /\ UNCHANGED << ownerVars, poolVars, chanVars, message >>
    /\ UNCHANGED << submitted, fetched, finished, at_drop >>

\* Variant of JobReturn: no loop, the thread returns after its first job.
JobReturn_Exit(w) ==
    /\ wpc[w] = "job"
    /\ finished' = [finished EXCEPT ![message[w].job] = @ + 1]
    /\ message' = [message EXCEPT ![w] = NoMessage]
    /\ wpc' = [wpc EXCEPT ![w] = "returned"]
    /\ receiver_refs' = receiver_refs - 1
    /\ UNCHANGED << ownerVars, poolVars >>
    /\ UNCHANGED << channels, senders, queue, mutex >>
    /\ UNCHANGED << submitted, fetched, invoked, at_drop >>

\* job() returns; the loop goes round
JobReturn(w) ==
    /\ wpc[w] = "job"
    /\ finished' = [finished EXCEPT ![message[w].job] = @ + 1]
    /\ message' = [message EXCEPT ![w] = NoMessage]
    /\ wpc' = [wpc EXCEPT ![w] = "lock"]
    /\ UNCHANGED << ownerVars, poolVars, chanVars >>
    /\ UNCHANGED << submitted, fetched, invoked, at_drop >>

\* Variant of MatchErr: no break, the loop goes round on Err too.
MatchErr_Continue(w) ==
    /\ wpc[w] = "match"
    /\ message[w].tag = "Err"
    /\ message' = [message EXCEPT ![w] = NoMessage]
    /\ wpc' = [wpc EXCEPT ![w] = "lock"]
    /\ UNCHANGED << ownerVars, poolVars, jobVars, chanVars >>

\* match message { Err(_) => { println!(..); break; } }: the thread returns
\* and its clone of the receiver's Arc is dropped
MatchErr(w) ==
    /\ wpc[w] = "match"
    /\ message[w].tag = "Err"
    /\ wpc' = [wpc EXCEPT ![w] = "returned"]
    /\ receiver_refs' = receiver_refs - 1
    /\ UNCHANGED << ownerVars, poolVars, jobVars, message >>
    /\ UNCHANGED << channels, senders, queue, mutex >>

\* Variant of JobPanic: the panic is caught and the loop goes round.
JobPanic_Caught(w) ==
    /\ wpc[w] = "job"
    /\ wpc' = [wpc EXCEPT ![w] = "lock"]
    /\ message' = [message EXCEPT ![w] = NoMessage]
    /\ UNCHANGED << ownerVars, poolVars, jobVars, chanVars >>

\* job() panics: the thread unwinds and ends; its locals are dropped, the
\* clone of the receiver's Arc among them, and a MutexGuard still alive
\* would poison the mutex as it is released
JobPanic(w) ==
    /\ wpc[w] = "job"
    /\ wpc' = [wpc EXCEPT ![w] = "panicked"]
    /\ message' = [message EXCEPT ![w] = NoMessage]
    /\ receiver_refs' = receiver_refs - 1
    /\ poisoned' = (poisoned \/ mutex = Some(w))
    /\ mutex' = IF mutex = Some(w) THEN None ELSE mutex
    /\ UNCHANGED << ctor, size, callers, pc, result, rendered, n, di, joining >>
    /\ UNCHANGED << poolVars, jobVars, channels, senders, queue >>

\* job() never returns: the thread stays inside the call for good
JobHang(w) ==
    /\ wpc[w] = "job"
    /\ wpc' = [wpc EXCEPT ![w] = "hung"]
    /\ UNCHANGED << ownerVars, poolVars, jobVars, chanVars, message >>

WorkerStep(w) ==
    \/ Lock(w)
    \/ RecvOk(w)
    \/ RecvErr(w)
    \/ Unlock(w)
    \/ MatchOk(w)
    \/ JobReturn(w)
    \/ MatchErr(w)

----------------------------------------------------------------------------
\* The places a worker thread can be in

\* threads whose loop is running
Live == {w \in ThreadIds : wpc[w] \notin {"unspawned", "returned", "panicked"}}
\* threads that own a fetched job (fetched, or running it)
Holding == {w \in Live : message[w].tag = "Ok"}
\* threads that own nothing: in, or on their way into, lock().recv()
Idle == {w \in Live : message[w].tag = "None"}
\* threads inside `receiver.lock().unwrap().recv()` with the guard alive
InFetch == {w \in ThreadIds : wpc[w] \in {"recv", "unlock"}}

----------------------------------------------------------------------------
\* Drop for ThreadPool

\* Variant of DropSender: drop goes to the joins with the sender left in place.
DropSender_KeepSender ==
    /\ pc = "ready"
    /\ di' = 1
    /\ pc' = "drop_loop"
    /\ at_drop' = [begun |-> TRUE,
                   queued |-> Len(queue),
                   held |-> Cardinality(Holding),
                   idle |-> Cardinality(Idle)]
    /\ UNCHANGED << ctor, size, envVars, result, rendered, n, joining, workers, sender >>
    /\ UNCHANGED << chanVars, workerVars, submitted, fetched, invoked, finished >>

\* drop(self.sender.take()): the field becomes None and the Sender is dropped
DropSender ==
    /\ pc = "ready"
    /\ sender' = None
    /\ senders' = IF sender # None THEN senders - 1 ELSE senders
    /\ di' = 1
    /\ pc' = "drop_loop"
    /\ UNCHANGED << ctor, size, envVars, result, rendered, n, joining, workers >>
    /\ at_drop' = [begun |-> TRUE,
                   queued |-> Len(queue),
                   held |-> Cardinality(Holding),
                   idle |-> Cardinality(Idle)]
    /\ UNCHANGED << channels, receiver_refs, queue, mutex >>
    /\ UNCHANGED << workerVars, submitted, fetched, invoked, finished >>

\* for worker in &mut self.workers { println!(..); if let Some(thread) =
\* worker.thread.take() { ... } }: take the handle of the next worker
DropTake ==
    /\ pc = "drop_loop"
    /\ di <= Len(workers)
    /\ workers' = [workers EXCEPT ![di].thread = None]
    /\ IF workers[di].thread # None
       THEN joining' = workers[di].thread /\ pc' = "join" /\ UNCHANGED di
       ELSE di' = di + 1 /\ UNCHANGED << joining, pc >>
    /\ UNCHANGED << ctor, size, envVars, result, rendered, n, sender >>
    /\ UNCHANGED << chanVars, workerVars, jobVars >>

\* Variant of DropJoin: the handle is let go without waiting for the thread.
DropJoin_NoWait ==
    /\ pc = "join"
    /\ joining' = None
    /\ pc' = "drop_loop"
    /\ di' = di + 1
    /\ UNCHANGED << ctor, size, envVars, result, rendered, n >>
    /\ UNCHANGED << poolVars, chanVars, workerVars, jobVars >>

\* Variant of DropJoin: the result of join() is not looked at.
DropJoin_IgnoreErr ==
    /\ pc = "join"
    /\ wpc[joining[1]] \in {"returned", "panicked"}
    /\ joining' = None
    /\ pc' = "drop_loop"
    /\ di' = di + 1
    /\ UNCHANGED << ctor, size, envVars, result, rendered, n >>
    /\ UNCHANGED << poolVars, chanVars, workerVars, jobVars >>

\* thread.join().unwrap(): returns once the worker's thread has ended
DropJoin ==
    /\ pc = "join"
    /\ wpc[joining[1]] \in {"returned", "panicked"}
    /\ joining' = None
    /\ IF wpc[joining[1]] = "panicked"
       THEN pc' = "panicked" /\ UNCHANGED di
       ELSE pc' = "drop_loop" /\ di' = di + 1
    /\ UNCHANGED << ctor, size, envVars, result, rendered, n >>
    /\ UNCHANGED << poolVars, chanVars, workerVars, jobVars >>

\* Variant of DropDone: drop returns once the first worker has been joined.
DropDone_Early ==
    /\ pc = "drop_loop"
    /\ di > 1
    /\ pc' = "dropped"
    /\ UNCHANGED << ctor, size, envVars, result, rendered, n, di, joining >>
    /\ UNCHANGED << poolVars, chanVars, workerVars, jobVars >>

\* the loop over the workers is over: drop returns
DropDone ==
    /\ pc = "drop_loop"
    /\ di > Len(workers)
    /\ pc' = "dropped"
    /\ UNCHANGED << ctor, size, envVars, result, rendered, n, di, joining >>
    /\ UNCHANGED << poolVars, chanVars, workerVars, jobVars >>

----------------------------------------------------------------------------

Next ==
    \/ New
    \/ Build
    \/ to_string
    \/ GenChannel
    \/ GenPush
    \/ GenReturn
    \/ Execute
    \/ \E w \in ThreadIds : WorkerStep(w)
    \/ DropSender
    \/ DropTake
    \/ DropJoin
    \/ DropDone

Spec == Init /\ [][Next]_vars

\* The worker threads and a drop that has begun are scheduled fairly; the
\* owner is never obliged to submit a job or to drop the pool.
Fairness ==
    /\ \A w \in ThreadIds : WF_vars(WorkerStep(w))
    /\ WF_vars(DropTake)
    /\ WF_vars(DropJoin)
    /\ WF_vars(DropDone)

FairSpec == Spec /\ Fairness

----------------------------------------------------------------------------
\* Jobs that may panic

FaultNext ==
    \/ Next
    \/ \E w \in ThreadIds : JobPanic(w)

FaultSpec == Init /\ [][FaultNext]_vars

FaultFairSpec == FaultSpec /\ Fairness

\* Several threads calling execute on a shared pool.  The owner cannot drop
\* the pool while a call borrows it.
ConcNext ==
    \/ New
    \/ Build
    \/ to_string
    \/ GenChannel
    \/ GenPush
    \/ GenReturn
    \/ \E t \in CallerIds : ExecCall(t)
    \/ \E t \in CallerIds : ExecSend(t)
    \/ \E w \in ThreadIds : WorkerStep(w)
    \/ (\A t \in CallerIds : callers[t].at # "send") /\ DropSender
    \/ DropTake
    \/ DropJoin
    \/ DropDone

ConcSpec == Init /\ [][ConcNext]_vars

ConcFairSpec ==
    /\ ConcSpec
    /\ Fairness
    /\ \A t \in CallerIds : WF_vars(ExecSend(t))

\* execute called against its contract, also while drop runs or after it,
\* with jobs that may panic
LateNext ==
    \/ New
    \/ Build
    \/ to_string
    \/ GenChannel
    \/ GenPush
    \/ GenReturn
    \/ \E t \in CallerIds : ExecCallAt(t, {"ready", "drop_loop", "join", "dropped"})
    \/ \E t \in CallerIds : ExecSend(t)
    \/ \E w \in ThreadIds : WorkerStep(w)
    \/ \E w \in ThreadIds : JobPanic(w)
    \/ DropSender
    \/ DropTake
    \/ DropJoin
    \/ DropDone

LateSpec == Init /\ [][LateNext]_vars

\* Jobs that may never return

HangNext ==
    \/ Next
    \/ \E w \in ThreadIds : JobHang(w)

HangSpec == Init /\ [][HangNext]_vars

HangFairSpec == HangSpec /\ Fairness

----------------------------------------------------------------------------
\* Vocabulary of the properties

IsSubmitted(j) == \E i \in 1 .. Len(submitted) : submitted[i] = j
InQueue(j) == Cardinality({i \in 1 .. Len(queue) : queue[i] = j})
TimesFetched(j) == Cardinality({i \in 1 .. Len(fetched) : fetched[i] = j})
HeldBy(j) == {w \in Holding : message[w].job = j}
Running(j) == \E w \in ThreadIds : wpc[w] = "job" /\ message[w].job = j

----------------------------------------------------------------------------
\* C1: once drop has finished, every job handed to execute has been invoked
\* exactly once and has returned (none skipped, none invoked twice), and no
\* other job was ever invoked.
C1_ExactlyOnceAfterDrop ==
    pc = "dropped" =>
        \A j \in JobIds :
            IF IsSubmitted(j)
            THEN invoked[j] = 1 /\ finished[j] = 1
            ELSE invoked[j] = 0 /\ finished[j] = 0

\* drop has finished for a pool that had MaxJobs jobs, some still queued and
\* some held by a worker when drop began
C1_Witness ==
    /\ pc = "dropped"
    /\ Len(submitted) = MaxJobs
    /\ at_drop.queued > 0
    /\ at_drop.held > 0

\* C2: every submitted job is in exactly one place: in the queue, held by
\* exactly one worker (fetched or running), or finished; a job is fetched at
\* most once, invoked at most once, and once fetched never in the queue again.
C2_JobInOnePlace ==
    \A j \in JobIds :
        /\ InQueue(j) + Cardinality(HeldBy(j)) + finished[j]
              = (IF IsSubmitted(j) THEN 1 ELSE 0)
        /\ TimesFetched(j) <= 1
        /\ invoked[j] <= 1
        /\ TimesFetched(j) = 1 => InQueue(j) = 0
        /\ TimesFetched(j) = Cardinality(HeldBy(j)) + finished[j]

\* one job queued, one held by a worker, one finished
C2_Witness ==
    \E a, b, c \in JobIds :
        /\ InQueue(a) = 1
        /\ Cardinality(HeldBy(b)) = 1
        /\ finished[c] = 1

\* C3: under fair scheduling of the workers (every job returns), a drop that
\* has begun, in whatever state the workers and the queue are, finishes.
C3_DropTerminates ==
    (pc \in {"drop_loop", "join"}) ~> (pc = "dropped")

\* drop has finished although, when it began, a job was held by a worker and
\* another worker was idle
C3_Witness ==
    /\ pc = "dropped"
    /\ at_drop.held > 0
    /\ at_drop.idle > 0

\* C4: under fair scheduling of the workers, every job handed to execute is
\* eventually invoked on a worker and, not before that, eventually returns,
\* whether or not the pool is ever dropped.
C4_EveryJobRuns ==
    [](\A j \in JobIds :
          /\ finished[j] <= invoked[j]
          /\ IsSubmitted(j) => <>(invoked[j] = 1) /\ <>(finished[j] = 1)
          /\ Running(j) => <>(finished[j] = 1))

\* MaxJobs jobs have all run and finished on a pool that is still in use
C4_Witness ==
    /\ pc = "ready"
    /\ Len(submitted) = MaxJobs
    /\ \A j \in JobIds : invoked[j] = 1 /\ finished[j] = 1

\* C5: the pool's sender is present while the pool is in use, it is emptied
\* only by the first step of drop and never set again, and whenever drop is
\* at its loop, takes a handle or waits in a join the sender is empty and
\* the channel's send side is closed.
C5_SenderClosedBeforeJoin ==
    /\ [](pc = "ready" => sender # None /\ senders = 1)
    /\ [](pc \in {"drop_loop", "join", "dropped"} => sender = None /\ senders = 0)
    /\ []((joining # None \/ \E i \in 1 .. Len(workers) : workers[i].thread = None)
            => sender = None /\ senders = 0)
    /\ [][(sender # None /\ sender' = None) => (pc = "ready" /\ pc' = "drop_loop")]_vars
    /\ [][(sender = None /\ sender' # None) => (pc = "gen_loop" /\ pc' = "ready")]_vars

\* drop waits in the join of a worker that has not ended yet
C5_Witness ==
    /\ pc = "join"
    /\ joining # None
    /\ wpc[joining[1]] \notin {"returned", "panicked"}
    /\ sender = None

\* C6: jobs are dequeued in the order they were sent (the jobs fetched so far
\* are the first of the jobs submitted, in the same order), and on a pool
\* of size 1 a job is not started before every job sent before it returned.
C6_FifoDelivery ==
    /\ Len(fetched) <= Len(submitted)
    /\ \A i \in 1 .. Len(fetched) : fetched[i] = submitted[i]
    /\ size = 1 =>
          \A i, k \in 1 .. Len(submitted) :
              (i < k /\ invoked[submitted[k]] > 0) => finished[submitted[i]] = 1

\* size 1: the second job is running after the first one returned, and a
\* third one waits in the queue
C6_Witness ==
    /\ size = 1
    /\ Len(submitted) >= 3
    /\ finished[submitted[1]] = 1
    /\ Running(submitted[2])
    /\ InQueue(submitted[3]) = 1

\* C7: at most one worker is inside lock().recv() at any instant, it is the
\* one holding the receiver's mutex, and every other idle worker is waiting
\* for the mutex.
C7_OneFetcher ==
    /\ Cardinality(InFetch) <= 1
    /\ \A w \in ThreadIds : w \in InFetch <=> mutex = Some(w)
    /\ \A w \in Idle : mutex # Some(w) => wpc[w] = "lock"

\* one worker blocked in recv() with the mutex, another waiting for the mutex
C7_Witness ==
    \E w, v \in ThreadIds :
        /\ w # v
        /\ wpc[w] = "recv"
        /\ mutex = Some(w)
        /\ wpc[v] = "lock"

\* C8: a worker that has left the fetch (about to run, or running, a job, or
\* about to leave its loop) does not hold the receiver's mutex; so while a
\* worker runs a job and no other worker is inside the fetch, a worker
\* waiting for the mutex can take it.
C8_NoLockWhileRunning ==
    \A w \in ThreadIds :
        /\ wpc[w] \in {"match", "job", "returned"} => mutex # Some(w)
        /\ wpc[w] = "job" =>
              \A v \in ThreadIds \ {w} :
                  (wpc[v] = "lock" /\ InFetch = {}) => ENABLED Lock(v)

\* two different jobs running at the same time on two workers
C8_Witness ==
    \E w, v \in ThreadIds :
        /\ w # v
        /\ wpc[w] = "job"
        /\ wpc[v] = "job"
        /\ message[w].job # message[v].job

\* C9: for size > 0 neither constructor fails, and the pool it returns has
\* exactly size workers with ids 0..size-1 in order, each with a started
\* thread and its join handle present, and the sender present.
C9_ConstructOk ==
    size > 0 =>
        /\ pc \notin {"panicked", "err", "err_shown"}
        /\ result.tag \in {"None", "Ok"}
        /\ pc = "ready" =>
              /\ result.tag = "Ok"
              /\ Len(workers) = size
              /\ \A i \in 1 .. Len(workers) :
                    /\ workers[i].id = i - 1
                    /\ workers[i].thread = Some(i - 1)
                    /\ wpc[i - 1] # "unspawned"
              /\ sender # None
              /\ senders = 1

\* a pool of MaxSize workers has just been returned
C9_Witness ==
    /\ pc = "ready"
    /\ size = MaxSize
    /\ Len(workers) = MaxSize
    /\ submitted = << >>

\* C10: for size = 0, new panics and build returns an error with given_size
\* 0 that renders as the fixed message ending in "0"; no channel is created
\* and no worker or thread exists.
C10_ConstructZero ==
    size = 0 =>
        /\ pc \in {"call", "panicked", "err", "err_shown"}
        /\ channels = 0 /\ senders = 0 /\ receiver_refs = 0
        /\ workers = << >> /\ sender = None
        /\ \A w \in ThreadIds : wpc[w] = "unspawned"
        /\ (ctor = "new" /\ pc # "call") =>
              pc = "panicked" /\ result.tag = "Panic"
        /\ (ctor = "build" /\ pc # "call") =>
              /\ pc \in {"err", "err_shown"}
              /\ result = [tag |-> "Err", given_size |-> 0]
        /\ pc = "err_shown" =>
              rendered = "Error creating ThreadPool: Invalid size. Given size: 0"

\* build(0) has returned its error and the error has been rendered
C10_Witness ==
    /\ size = 0
    /\ ctor = "build"
    /\ pc = "err_shown"
    /\ result.tag = "Err"

\* threads that have ended, by returning or by a panic
Ended == {w \in ThreadIds : wpc[w] \in {"returned", "panicked"}}

\* C11 as stated: a worker thread ends only on the closed signal, so never
\* while the sender is present and never while a job is queued, and an ended
\* thread stays ended.
C11_EndsOnlyOnClosed ==
    /\ [][\A w \in ThreadIds :
            (w \notin Ended /\ (w \in Ended)') =>
                /\ message[w] = ErrMessage
                /\ sender = None /\ senders = 0
                /\ queue = << >>]_vars
    /\ [][\A w \in Ended : wpc'[w] = wpc[w]]_vars

\* C11 as amended: a worker thread ends either by the panic of the job it is
\* running or by returning from its loop; it returns only on the closed
\* signal, which recv gives only when the sender has been dropped and the
\* queue is empty; an ended thread stays ended.
C11_ReturnsOnlyOnClosed ==
    /\ [](\A w \in ThreadIds :
            message[w] = ErrMessage =>
                sender = None /\ senders = 0 /\ queue = << >>)
    /\ [][\A w \in ThreadIds :
            (w \notin Ended /\ (w \in Ended)') =>
                \/ /\ wpc'[w] = "returned"
                   /\ message[w] = ErrMessage
                   /\ sender = None /\ senders = 0
                   /\ queue = << >>
                \/ /\ wpc'[w] = "panicked"
                   /\ wpc[w] = "job"]_vars
    /\ [][\A w \in Ended : wpc'[w] = wpc[w]]_vars

\* one worker has returned from its loop and another has ended by a panic
C11_Witness ==
    \E w, v \in ThreadIds :
        /\ wpc[w] = "returned"
        /\ wpc[v] = "panicked"

\* drop's loop has taken the handle of the i-th worker
Taken(i) == workers[i].thread = None
\* drop's loop has joined the i-th worker and gone past it
Joined(i) == Taken(i) /\ i < di /\ wpc[workers[i].id] = "returned"

\* C12: when drop has finished every worker's thread has ended and every
\* join handle is empty; a handle is emptied only by drop, stays empty, and
\* the handle of a worker is taken only after every worker before it in the
\* vector has been joined.
C12_NoWorkerOutlivesDrop ==
    /\ [](pc = "dropped" =>
            /\ Len(workers) = size
            /\ Live = {}
            /\ \A i \in 1 .. Len(workers) : Joined(i))
    /\ [](\A i \in 1 .. Len(workers) :
            Taken(i) =>
                /\ at_drop.begun
                /\ pc \in {"drop_loop", "join", "dropped", "panicked"}
                /\ i <= di
                /\ \A k \in 1 .. (i - 1) : Joined(k))
    /\ [](joining # None => pc = "join" /\ joining = Some(workers[di].id) /\ Taken(di))
    /\ [][\A i \in 1 .. Len(workers) : Taken(i) => Taken(i)']_vars
    /\ [][\A i \in 1 .. Len(workers) :
            (~Taken(i) /\ Taken(i)') => (pc = "drop_loop" /\ di = i)]_vars

\* drop has finished for a pool of MaxSize workers that had run a job
C12_Witness ==
    /\ pc = "dropped"
    /\ size = MaxSize
    /\ \E j \in JobIds : finished[j] = 1

\* a call of execute with the job j has begun
Begun(j) == \E t \in CallerIds : callers[t].at # "idle" /\ callers[t].job = j
\* the job j is in the hands of a caller whose send has not happened yet
InCall(j) == \E t \in CallerIds : callers[t] = [at |-> "send", job |-> j]

\* C13: with several threads inside execute at once, every job whose call has
\* begun is in exactly one place (with its caller, in the queue, held by one
\* worker, or finished), is invoked at most once, and under fair scheduling
\* is eventually invoked and returns.
C13_ConcurrentSubmit ==
    [](\A j \in JobIds :
          /\ (IF InCall(j) THEN 1 ELSE 0) + InQueue(j)
                + Cardinality(HeldBy(j)) + finished[j]
                = (IF Begun(j) THEN 1 ELSE 0)
          /\ TimesFetched(j) <= 1
          /\ invoked[j] <= 1
          /\ finished[j] <= invoked[j]
          /\ InCall(j) => <>(invoked[j] = 1) /\ <>(finished[j] = 1))

\* two calls overlapped (the job of the call that began second was sent
\* first) and both jobs have been invoked once and have returned
C13_Witness ==
    /\ Len(submitted) >= 2
    /\ submitted[1] = 2
    /\ submitted[2] = 1
    /\ invoked[1] = 1 /\ finished[1] = 1
    /\ invoked[2] = 1 /\ finished[2] = 1

\* the job j was being run by a worker whose thread then ended by a panic
Faulted(j) == invoked[j] = 1 /\ finished[j] = 0 /\ HeldBy(j) = {}

\* C14: a job's panic leaves the receive side intact: the panicking worker
\* does not hold the mutex, the mutex is never poisoned, the step changes
\* neither the mutex, the queue nor any other worker, and under fair
\* scheduling every submitted job is still fetched and invoked unless every
\* worker thread has ended.
C14_FaultLeavesReceiver ==
    /\ [](~poisoned)
    /\ [](\A w \in ThreadIds : mutex = Some(w) => w \in InFetch)
    /\ [][\A w \in ThreadIds :
            (wpc[w] = "job" /\ wpc'[w] = "panicked") =>
                /\ mutex # Some(w)
                /\ mutex' = mutex
                /\ queue' = queue
                /\ \A v \in ThreadIds \ {w} :
                      wpc'[v] = wpc[v] /\ message'[v] = message[v]]_vars
    /\ [](\A j \in JobIds :
            IsSubmitted(j) => <>(invoked[j] = 1 \/ Live = {}))

\* after the job of one worker has panicked, another worker runs a job that
\* was fetched later
C14_Witness ==
    \E w, v \in ThreadIds : \E j, k \in JobIds :
        /\ wpc[w] = "panicked"
        /\ Faulted(j)
        /\ j < k
        /\ wpc[v] = "job"
        /\ message[v].job = k

\* worker threads stuck for good inside a job that never returns
Hung == {w \in ThreadIds : wpc[w] = "hung"}

\* C15: a worker inside a job that never returns stays there (it holds its
\* job and never fetches again) without holding the mutex; under fair
\* scheduling every submitted job is still invoked unless every live worker
\* is stuck in such a job; and drop never gets past the join of that worker,
\* so it never finishes.
C15_HungJobOccupiesWorker ==
    /\ [][\A w \in Hung : wpc'[w] = "hung" /\ message'[w] = message[w]]_vars
    /\ [](\A w \in Hung : mutex # Some(w) /\ message[w].tag = "Ok")
    /\ [](\A j \in JobIds :
            IsSubmitted(j) => <>(invoked[j] = 1 \/ Live \subseteq Hung))
    /\ [](Hung # {} => pc # "dropped")
    /\ [](\A i \in 1 .. Len(workers) :
            workers[i].id \in Hung => di <= i /\ ~Joined(i))

\* drop waits in the join of a worker stuck in its job, while another worker
\* has run a job to its end and has returned on the closed signal
C15_Witness ==
    /\ pc = "join"
    /\ joining # None
    /\ joining[1] \in Hung
    /\ \E v \in ThreadIds : wpc[v] = "returned"
    /\ \E j \in JobIds : finished[j] = 1

\* C16: while the pool has not begun to be dropped execute does not panic:
\* the owner is never brought down by a call of execute on a pool that was
\* built and is still in use.
C16_ExecuteNeverFails ==
    (pc = "panicked" /\ size > 0) => at_drop.begun

\* the send of caller t cannot succeed: no sender, or no receiver left
SendFails == sender = None \/ receiver_refs = 0

\* C17: a send that cannot succeed panics in its caller and changes nothing
\* else: the job is not put in the queue and is never fetched or invoked,
\* and the workers are as they were; a call that returned has put its job in
\* the channel.
C17_LateSubmitFailsLoudly ==
    /\ [][\A t \in CallerIds :
            (callers[t].at = "send" /\ callers'[t].at # "send" /\ SendFails) =>
                /\ callers'[t] = [at |-> "panicked", job |-> callers[t].job]
                /\ queue' = queue
                /\ submitted' = submitted
                /\ wpc' = wpc
                /\ message' = message]_vars
    /\ [](\A t \in CallerIds :
            callers[t].at = "panicked" =>
                /\ ~IsSubmitted(callers[t].job)
                /\ InQueue(callers[t].job) = 0
                /\ TimesFetched(callers[t].job) = 0
                /\ invoked[callers[t].job] = 0)
    /\ [](\A t \in CallerIds :
            callers[t].at = "done" => IsSubmitted(callers[t].job))
    /\ [][\A t \in CallerIds :
            callers[t].at = "panicked" => callers'[t] = callers[t]]_vars

\* a call made while drop waits in a join has panicked, with the queue empty
C17_Witness ==
    /\ pc = "join"
    /\ sender = None
    /\ queue = << >>
    /\ \E t \in CallerIds : callers[t].at = "panicked"

\* worker threads inside job()
InJob == {w \in ThreadIds : wpc[w] \in {"job", "hung"}}

\* calls of jobs that have begun and not returned
RECURSIVE CallsInProgress(_)
CallsInProgress(k) ==
    IF k = 0 THEN 0 ELSE (invoked[k] - finished[k]) + CallsInProgress(k - 1)

\* C18: at most size jobs run at the same instant: the threads that exist
\* are those of the workers 0..size-1, each runs at most the one job it
\* holds, every call of a job in progress is on one of them, and a submitted
\* job that no worker holds and that has not finished is in the queue.
C18_AtMostSizeRunning ==
    /\ Cardinality(InJob) <= size
    /\ Cardinality({j \in JobIds : Running(j)}) <= size
    /\ CallsInProgress(MaxJobs) = Cardinality(InJob)
    /\ \A w \in ThreadIds : wpc[w] # "unspawned" => w < size /\ w < Len(workers)
    /\ Len(workers) <= size
    /\ \A j \in JobIds :
          (IsSubmitted(j) /\ HeldBy(j) = {} /\ finished[j] = 0) => InQueue(j) = 1

\* every worker of a pool of MaxSize is running a job and a job waits
C18_Witness ==
    /\ size = MaxSize
    /\ \A w \in ThreadIds : wpc[w] = "job"
    /\ queue # << >>

\* worker threads that ended by a panic
Panicked == {w \in ThreadIds : wpc[w] = "panicked"}

\* C19: a job's panic ends the thread of the worker that ran it, and only
\* that: there are as many ended-by-panic threads as faulted jobs, the step
\* takes exactly one thread out of the live ones and leaves the queue and
\* the workers vector as they are, the thread stays ended, no thread is
\* started after construction, and the faulted job is not run again.
C19_FaultEndsWorker ==
    /\ [](Cardinality(Panicked) = Cardinality({j \in JobIds : Faulted(j)}))
    /\ [](\A j \in JobIds : invoked[j] <= 1 /\ TimesFetched(j) <= 1)
    /\ [][\A w \in ThreadIds :
            (w \notin Panicked /\ (w \in Panicked)') =>
                /\ wpc[w] = "job"
                /\ Live' = Live \ {w}
                /\ Cardinality(Live') = Cardinality(Live) - 1
                /\ queue' = queue
                /\ workers' = workers
                /\ finished' = finished /\ invoked' = invoked]_vars
    /\ [][\A w \in Panicked :
            wpc'[w] = "panicked" /\ message'[w] = message[w]]_vars
    /\ [][pc # "gen_loop" => (Live' \subseteq Live /\ Len(workers') = Len(workers))]_vars

\* one worker has ended by a panic, a job waits in the queue, and the other
\* worker of the pool is running a job
C19_Witness ==
    /\ size = MaxSize
    /\ Cardinality(Panicked) = 1
    /\ queue # << >>
    /\ \E v \in Live : wpc[v] = "job"

\* drop has panicked (the owner panicked after drop began)
DropFaulted == pc = "panicked" /\ at_drop.begun

\* C20: once the join of a worker whose thread ended by a panic has come
\* back, drop has panicked at that worker and goes no further: the sender
\* is empty and the channel closed, the workers before it have been joined,
\* its own handle has been taken, and the workers after it still have their
\* handles.
C20_DropFaultsAtPanickedWorker ==
    /\ [](\A i \in 1 .. Len(workers) :
            (Taken(i) /\ workers[i].id \in Panicked /\ pc # "join") =>
                DropFaulted /\ di = i)
    /\ [](DropFaulted =>
            /\ sender = None /\ senders = 0
            /\ di \in 1 .. Len(workers)
            /\ workers[di].id \in Panicked
            /\ Taken(di)
            /\ joining = None
            /\ \A k \in 1 .. (di - 1) : Joined(k)
            /\ \A k \in (di + 1) .. Len(workers) :
                  workers[k].thread = Some(workers[k].id))
    /\ [][DropFaulted => UNCHANGED << pc, di, workers, sender, joining >>]_vars

\* drop has panicked at the first worker while the worker after it, never
\* joined, is still alive with its handle in place
C20_Witness ==
    /\ DropFaulted
    /\ di = 1
    /\ Len(workers) >= 2
    /\ workers[2].thread # None
    /\ workers[2].id \in Live

====
